---- MODULE Spec2Model ----
(***************************************************************************)
(* Model of spaced_repetition.py: the FSRS memory model, the question      *)
(* collection (in memory and in questions.json), add_question, the review  *)
(* session (review_questions / review_single_question /                    *)
(* update_question_metrics) and toggle_company_prep_mode.                  *)
(*                                                                         *)
(* Python floats are represented in fixed point with SC units per 1.0.     *)
(* Dates are kept as the ISO strings the program stores, represented as    *)
(* their sequences of character codes and compared the way Python compares *)
(* strings; the clock is a count of UTC-4 days since Epoch.                *)
(***************************************************************************)
EXTENDS Integers, Sequences, FiniteSets, TLC

\* ------------------------------------------------------------------------
\* Bounds of the model
\* ------------------------------------------------------------------------
\* last clock day (UTC-4) the model lets the clock reach
MaxDay == 2

\* number of menu choices (add, review, toggle) the model lets the user make
MaxChoices == 3

\* ------------------------------------------------------------------------
\* Fixed-point representation of Python floats
\* ------------------------------------------------------------------------
SC == 10 ^ 4

Abs(x) == IF x < 0 THEN -x ELSE x

Sgn(x) == IF x < 0 THEN -1 ELSE 1

\* a * b on floats
FMul(a, b) ==
    LET A == Abs(a)
        B == Abs(b)
    IN  Sgn(a) * Sgn(b) * ((A \div SC) * B + ((A % SC) * B) \div SC)

\* a / b on floats (b # 0)
FDiv(a, b) ==
    LET A == Abs(a)
        B == Abs(b)
    IN  Sgn(a) * Sgn(b) * ((A \div B) * SC + ((A % B) * SC) \div B)

\* math.log(2)
LN2 == (6931 * SC) \div 10000

RECURSIVE LnReduce(_, _)
\* x = m * 2^k with 1.0 <= m < 2.0
LnReduce(x, k) ==
    IF x >= 2 * SC THEN LnReduce(x \div 2, k + 1)
    ELSE IF x < SC THEN LnReduce(x * 2, k - 1)
    ELSE <<x, k>>

\* natural logarithm of a float x > 0
Ln(x) ==
    LET mk == LnReduce(x, 0)
        z  == FDiv(mk[1] - SC, mk[1] + SC)
        z2 == FMul(z, z)
        z3 == FMul(z, z2)
        z5 == FMul(z3, z2)
        z7 == FMul(z5, z2)
        z9 == FMul(z7, z2)
    IN  mk[2] * LN2 + 2 * (z + z3 \div 3 + z5 \div 5 + z7 \div 7 + z9 \div 9)

RECURSIVE ExpSeries(_, _, _, _)
\* sum of the Taylor series of e^r from term number n on, term = r^n / n!
ExpSeries(r, term, n, acc) ==
    IF term = 0 \/ n > 12 THEN acc
    ELSE ExpSeries(r, FMul(term, r) \div (n + 1), n + 1, acc + term)

\* math.exp(y)
Exp(y) ==
    LET k == y \div LN2
        r == y - k * LN2
        e == ExpSeries(r, SC, 0, 0)
    IN  IF k >= 0 THEN e * (2 ^ k) ELSE e \div (2 ^ (-k))

\* x ** p and math.pow(x, p) for a float x > 0
Pow(x, p) == Exp(FMul(p, Ln(x)))

\* Python round(x): to the nearest integer, halves to the even one
Round(x) ==
    LET fl  == x \div SC
        rem == x - fl * SC
    IN  IF 2 * rem < SC THEN fl
        ELSE IF 2 * rem > SC THEN fl + 1
        ELSE IF fl % 2 = 0 THEN fl ELSE fl + 1

Min(a, b) == IF a < b THEN a ELSE b

Max(a, b) == IF a > b THEN a ELSE b

\* ------------------------------------------------------------------------
\* class FSRS
\* ------------------------------------------------------------------------
\* self.w, indexed from 0 as in the source
w ==
    [i \in 0..19 |->
        <<25000, 26000, 23000, 28000, 30000, 8000, 7000, 5000, 1000, 1000,
          1000, 10000, 5000, 5000, 10000, 6000, 12000, 5000, 7000, 13000>>[i + 1]]

interval_cap == 365

maximum_interval == interval_cap

DECAY == -4000

FACTOR == Pow(9000, FDiv(SC, DECAY)) - SC

forgetting_curve(elapsed_days, stability) ==
    Pow(SC + FDiv(FACTOR * elapsed_days, stability), DECAY)

\* next_interval without the lower clamp max(..., 1)
next_interval_no_floor(stability, retention_factor) ==
    LET new_interval ==
            FMul(Pow(retention_factor, FDiv(SC, DECAY)) - SC, FDiv(stability, FACTOR))
    IN  Min(Round(new_interval), maximum_interval)

next_interval(stability, retention_factor) ==
    LET new_interval ==
            FMul(Pow(retention_factor, FDiv(SC, DECAY)) - SC, FDiv(stability, FACTOR))
    IN  Min(Max(Round(new_interval), 1), maximum_interval)

mean_reversion(init, current) ==
    FMul(w[7], init) + FMul(SC - w[7], current)

next_difficulty(difficulty, rating) ==
    LET next_d == difficulty - w[6] * (rating - 3)
    IN  Min(Max(mean_reversion(5 * SC, next_d), 1 * SC), 10 * SC)

next_recall_stability(difficulty, stability, retrievability, rating) ==
    FMul(FMul(stability,
              SC + FMul(FMul(FMul(Exp(w[8]), 11 * SC - difficulty),
                             Pow(stability, -w[9])),
                        Exp(FMul(SC - retrievability, w[10])) - SC)),
         IF rating = 2 THEN w[15] ELSE SC)

\* ------------------------------------------------------------------------
\* Dates: datetime.now(timezone.utc) + timedelta(hours=-4), .date(),
\* timedelta(days=n) and .isoformat()
\* ------------------------------------------------------------------------
\* calendar date of clock day 0 (chosen so that the model's days cross a
\* month and a year boundary)
Epoch == <<2024, 12, 30>>

IsLeap(y) == (y % 4 = 0 /\ y % 100 # 0) \/ y % 400 = 0

DaysInMonth(y, m) ==
    IF m = 2 THEN (IF IsLeap(y) THEN 29 ELSE 28)
    ELSE IF m \in {4, 6, 9, 11} THEN 30 ELSE 31

RECURSIVE AddDays(_, _)
\* date + timedelta(days=n), n >= 0
AddDays(date, n) ==
    LET y   == date[1]
        m   == date[2]
        d   == date[3]
        dim == DaysInMonth(y, m)
    IN  IF d + n <= dim THEN <<y, m, d + n>>
        ELSE AddDays(IF m = 12 THEN <<y + 1, 1, 1>> ELSE <<y, m + 1, 1>>,
                     n - (dim - d + 1))

\* character codes of the digits and of "-"
Digit(n) == 48 + n

Hyphen == 45

\* date.isoformat(): the string "YYYY-MM-DD" as its sequence of characters
isoformat(date) ==
    LET y == date[1]
        m == date[2]
        d == date[3]
    IN  <<Digit(y \div 1000), Digit((y \div 100) % 10), Digit((y \div 10) % 10),
          Digit(y % 10), Hyphen, Digit(m \div 10), Digit(m % 10), Hyphen,
          Digit(d \div 10), Digit(d % 10)>>

\* the ISO string of the UTC-4 day `days` days after clock day `now`
IsoDay(now, days) == isoformat(AddDays(Epoch, now + days))

RECURSIVE StrLess(_, _)
\* Python's s < t on strings
StrLess(s, t) ==
    IF t = <<>> THEN FALSE
    ELSE IF s = <<>> THEN TRUE
    ELSE IF Head(s) # Head(t) THEN Head(s) < Head(t)
    ELSE StrLess(Tail(s), Tail(t))

\* Python's s <= t on strings
StrLE(s, t) == s = t \/ StrLess(s, t)

\* ------------------------------------------------------------------------
\* Module constants and the user's inputs
\* ------------------------------------------------------------------------
difficulty_order ==
    [t \in {"Arrays", "Hashing", "2P", "Stack", "Sorting", "Binary Search",
            "Sliding Window", "Linked List", "Greedy", "Heap", "Intervals",
            "Trees", "Math", "Graphs", "Backtracking", "Tries", "DP"} |->
        CASE t = "Arrays" -> 1
          [] t = "Hashing" -> 2
          [] t = "2P" -> 3
          [] t = "Stack" -> 4
          [] t = "Sorting" -> 5
          [] t = "Binary Search" -> 6
          [] t = "Sliding Window" -> 7
          [] t = "Linked List" -> 8
          [] t = "Greedy" -> 9
          [] t = "Heap" -> 10
          [] t = "Intervals" -> 11
          [] t = "Trees" -> 12
          [] t = "Math" -> 13
          [] t = "Graphs" -> 14
          [] t = "Backtracking" -> 15
          [] t = "Tries" -> 16
          [] t = "DP" -> 17]

\* str.lower() on the strings the model types in and on the category names
lower(s) ==
    CASE s = "Arrays" -> "arrays"
      [] s = "Hashing" -> "hashing"
      [] s = "2P" -> "2p"
      [] s = "Stack" -> "stack"
      [] s = "Sorting" -> "sorting"
      [] s = "Binary Search" -> "binary search"
      [] s = "Sliding Window" -> "sliding window"
      [] s = "Linked List" -> "linked list"
      [] s = "Greedy" -> "greedy"
      [] s = "Heap" -> "heap"
      [] s = "Intervals" -> "intervals"
      [] s = "Trees" -> "trees"
      [] s = "Math" -> "math"
      [] s = "Graphs" -> "graphs"
      [] s = "Backtracking" -> "backtracking"
      [] s = "Tries" -> "tries"
      [] s = "DP" -> "dp"
      [] s = "ARRAYS" -> "arrays"
      [] OTHER -> s

\* config['DEFAULT_RETENTION'] as a float
request_retention == (8 * SC) \div 10

\* value standing for Python's None in a numeric field
None == -1

\* what the user types at the prompts of add_new_question and add_question:
\* the question name, the problem type, the request retention ("" is None
\* here, then ".99", ".1") and the company tags after split and strip
AddQuestionInputs ==
    {[question |-> "two-sum", problem_type |-> "ARRAYS",
      retention_factor |-> None, company_tags |-> <<>>],
     [question |-> "two-sum", problem_type |-> "ARRAYS",
      retention_factor |-> (99 * SC) \div 100, company_tags |-> <<"Google">>],
     [question |-> "lru-cache", problem_type |-> "dp",
      retention_factor |-> (1 * SC) \div 10, company_tags |-> <<"Google">>],
     [question |-> "lru-cache", problem_type |-> "Bogus",
      retention_factor |-> None, company_tags |-> <<>>]}

\* companies typed at toggle_company_prep_mode and at menu option 4
CompanyInputs == {"Google"}

\* answers typed at the "(yes/no)" prompt, stripped and lower-cased, as their
\* sequences of characters
StartProblemInputs == {<<"y", "e", "s">>, <<"n", "o">>}

\* minutes between start_time and the end of the rating prompt
TimeTakenInputs == {3 * SC}

\* text typed at the "Explain the solution" prompt
ExplanationInputs == {"notes"}

Link == "https://leetcode.com/problems/x"

\* ------------------------------------------------------------------------
\* State
\* ------------------------------------------------------------------------
VARIABLES
    questions,            \* the global dict `questions` (keys in insertion order)
    file,                 \* the dict stored in DATA_FILE
    config,               \* the global dict `config` (also the file 'config')
    clock,                \* the current UTC-4 day, in days since Epoch
    pc,                   \* "menu", "session" (inside review_questions' loop)
                          \* or "crashed" (an exception ended the process)
    today,                \* review_questions: today
    company,              \* review_questions: company
    sorted_questions,     \* review_questions: names in sorted_questions
    unreviewed_questions, \* review_questions: names in unreviewed_questions
    i,                    \* position of the loop over unreviewed_questions
    start_problem,        \* review_single_question: the answers given so far
    choices               \* main: number of menu choices made so far

vars ==
    <<questions, file, config, clock, pc, today, company, sorted_questions,
      unreviewed_questions, i, start_problem, choices>>

session_vars ==
    <<today, company, sorted_questions, unreviewed_questions, i, start_problem>>

\* Python's None for the company argument
NoCompany == "None"

\* the empty dict {}
EmptyDict == [keys |-> <<>>, d |-> [k \in {} |-> 0]]

Keys(dict) == DOMAIN dict.d

\* dict[k] = rec: a new key goes last, an existing key keeps its place
SetItem(dict, k, rec) ==
    [keys |-> IF k \in Keys(dict) THEN dict.keys ELSE Append(dict.keys, k),
     d    |-> [x \in Keys(dict) \cup {k} |-> IF x = k THEN rec ELSE dict.d[x]]]

\* x in list
InList(x, list) == \E n \in 1..Len(list) : list[n] = x

\* load_questions(): the dict parsed from DATA_FILE
load_questions(f) == IF f.keys = <<>> THEN EmptyDict ELSE f

\* save_questions(): the dict written to DATA_FILE
save_questions(dict) == dict

\* ------------------------------------------------------------------------
\* add_question
\* ------------------------------------------------------------------------
difficulty_order_lower == {lower(k) : k \in DOMAIN difficulty_order}

\* difficulty_order_lower[problem_type_lower]
canonical_problem_type(problem_type_lower) ==
    CHOOSE k \in DOMAIN difficulty_order : lower(k) = problem_type_lower

\* the record add_question stores; now1 and now2 are the days of its two
\* readings of the clock
new_question(link, problem_type, company_tags, retention_factor, now1, now2) ==
    [link                   |-> link,
     problem_type           |-> problem_type,
     company_tags           |-> company_tags,
     last_reviewed          |-> IsoDay(now1, 0),
     next_review            |-> IsoDay(now2, 1),
     interval               |-> 1,
     stability              |-> w[0],
     difficulty             |-> 5 * SC,
     retention_factor       |-> IF retention_factor # None THEN retention_factor
                                ELSE request_retention,
     current_retention_rate |-> None,
     feynman                |-> "",
     solving_time           |-> <<>>,
     average_time           |-> None,
     ratings                |-> <<>>]

add_question ==
    /\ pc = "menu"
    /\ choices < MaxChoices
    /\ choices' = choices + 1
    /\ \E typed \in AddQuestionInputs, midnight \in {0, 1} :
        LET loaded == load_questions(file)
            now2   == clock + midnight
        IN  /\ now2 <= MaxDay
            /\ IF lower(typed.problem_type) \notin difficulty_order_lower
               THEN /\ questions' = loaded
                    /\ midnight = 0
                    /\ UNCHANGED <<file, clock>>
               ELSE /\ questions' =
                           SetItem(loaded, typed.question,
                                   new_question(Link,
                                                canonical_problem_type(
                                                    lower(typed.problem_type)),
                                                typed.company_tags,
                                                typed.retention_factor,
                                                clock, now2))
                    /\ file' = save_questions(questions')
                    /\ clock' = now2
    /\ UNCHANGED <<config, pc, session_vars>>

\* ------------------------------------------------------------------------
\* review_questions: building the listing
\* ------------------------------------------------------------------------
\* is_filtered with next_review < today in place of next_review <= today
is_filtered_before_today(details, comp, day) ==
    /\ comp = NoCompany \/ InList(comp, details.company_tags)
    /\ StrLess(details.next_review, day) \/ details.last_reviewed = day

\* the condition of the comprehension filtered_questions
is_filtered(details, comp, day) ==
    /\ comp = NoCompany \/ InList(comp, details.company_tags)
    /\ StrLE(details.next_review, day) \/ details.last_reviewed = day

\* is_unreviewed without the comparison with today
is_unreviewed_any_day(details, day) == TRUE

\* the condition of the comprehension unreviewed_questions
is_unreviewed(details, day) == details.last_reviewed # day

RECURSIVE sorted(_, _)
\* sorted(names, key=...): stable, ascending in key[name]
sorted(names, key) ==
    IF names = <<>> THEN <<>>
    ELSE LET x    == names[Len(names)]
             rest == sorted(SubSeq(names, 1, Len(names) - 1), key)
             le(q) == key[q] <= key[x]
             gt(q) == key[q] > key[x]
         IN  SelectSeq(rest, le) \o <<x>> \o SelectSeq(rest, gt)

filtered_questions(dict, comp, day) ==
    LET test(q) == is_filtered(dict.d[q], comp, day)
    IN  SelectSeq(dict.keys, test)

sort_by_difficulty(dict, names) ==
    sorted(names, [q \in Keys(dict) |-> difficulty_order[dict.d[q].problem_type]])

unreviewed_of(dict, names, day) ==
    LET test(q) == is_unreviewed(dict.d[q], day)
    IN  SelectSeq(names, test)

\* review_questions up to its loop: returns at once when nothing is unreviewed
review_questions ==
    /\ pc = "menu"
    /\ choices < MaxChoices
    /\ choices' = choices + 1
    /\ \E comp \in {NoCompany} \cup CompanyInputs :
        LET loaded     == load_questions(file)
            day        == IsoDay(clock, 0)
            listing    == sort_by_difficulty(loaded,
                                             filtered_questions(loaded, comp, day))
            unreviewed == unreviewed_of(loaded, listing, day)
        IN  /\ questions' = loaded
            /\ IF unreviewed = <<>>
               THEN UNCHANGED <<pc, session_vars>>
               ELSE /\ pc' = "session"
                    /\ today' = day
                    /\ company' = comp
                    /\ sorted_questions' = listing
                    /\ unreviewed_questions' = unreviewed
                    /\ i' = 1
                    /\ start_problem' = <<>>
    /\ UNCHANGED <<file, config, clock>>

\* ------------------------------------------------------------------------
\* review_single_question and update_question_metrics
\* ------------------------------------------------------------------------
\* what input() gives at the "(yes/no)" prompt when the terminal is closed
\* or Ctrl-C is pressed: EOFError / KeyboardInterrupt, which nothing catches
EOF == <<"EOF">>

\* declined as start_problem == 'n' in place of 'n' in start_problem
declined_exact(answer) == answer = <<"n">>

\* 'n' in start_problem
declined(answer) == InList("n", answer)

RECURSIVE SumOver(_, _)
\* sum(value(x) for x in list), value given as a function of the position
SumOver(list, value) ==
    IF list = <<>> THEN 0
    ELSE value[Len(list)] + SumOver(SubSeq(list, 1, Len(list) - 1), value)

\* a / b for two ints, as a float
IntDiv(a, b) == (a * SC) \div b

calculate_average_time(solving_times) ==
    IF solving_times # <<>>
    THEN SumOver(solving_times,
                 [n \in 1..Len(solving_times) |-> solving_times[n].time_taken])
         \div Len(solving_times)
    ELSE None

\* lines 191-201: the rating and the solving time are appended and the two
\* averages recomputed
record_rating(details, day, rating, time_taken) ==
    LET ratings == Append(details.ratings, [date |-> day, rating |-> rating])
        credit  == [n \in 1..Len(ratings) |->
                       IF ratings[n].rating = 0 THEN 0
                       ELSE IF ratings[n].rating >= 4 THEN 5
                       ELSE ratings[n].rating]
        times   == Append(details.solving_time,
                          [date |-> day, time_taken |-> time_taken])
    IN  [details EXCEPT
            !.ratings = ratings,
            !.current_retention_rate =
                IntDiv(SumOver(ratings, credit), Len(ratings) * 5),
            !.solving_time = times,
            !.average_time = calculate_average_time(times)]

\* config.NAME: config is a dict, whose keys are not attributes, so the
\* expression raises AttributeError
dict_attribute(dict, name) == [raised |-> TRUE, value |-> 0]

\* lines 216-218
effective_retention_factor(details, cfg) ==
    IF cfg.COMPANY_PREP_MODE
       /\ ~InList(cfg.COMPANY_PREP_TARGET, details.company_tags)
    THEN LET attr == dict_attribute(cfg, "COMPANY_PREP_RETENTION_FACTOR")
         IN  [raised |-> attr.raised,
              value  |-> FMul(details.retention_factor, attr.value)]
    ELSE [raised |-> FALSE, value |-> details.retention_factor]

\* rating_one_override without the branch for rating == 1
rating_one_override_absent(rating, base_interval, new_stability) ==
    [base_interval |-> base_interval, new_stability |-> new_stability]

\* lines 225-227
rating_one_override(rating, base_interval, new_stability) ==
    IF rating = 1
    THEN [base_interval |-> 1,
          new_stability |-> Max(FMul(new_stability, (6 * SC) \div 10), (1 * SC) \div 10)]
    ELSE [base_interval |-> base_interval, new_stability |-> new_stability]

\* update_question_metrics on the record `details`, the clock reading `now`
update_question_metrics(details, rating, cfg, now) ==
    LET last_interval    == details.interval
        last_stability   == details.stability
        last_difficulty  == details.difficulty
        retention_factor == effective_retention_factor(details, cfg)
        retrievability   == forgetting_curve(last_interval, last_stability)
        new_stability    == next_recall_stability(last_difficulty, last_stability,
                                                  retrievability, rating)
        new_difficulty   == next_difficulty(last_difficulty, rating)
        base_interval    == next_interval(new_stability, retention_factor.value)
        override         == rating_one_override(rating, base_interval, new_stability)
        new_interval     == Min(override.base_interval, interval_cap)
        next_review      == IsoDay(now, new_interval)
    IN  IF retention_factor.raised
        THEN [raised |-> TRUE, details |-> details]
        ELSE [raised  |-> FALSE,
              details |-> [details EXCEPT
                              !.interval = new_interval,
                              !.stability = override.new_stability,
                              !.difficulty = new_difficulty,
                              !.next_review = next_review]]

\* the for loop over unreviewed_questions ends after its last element
loop_finished(position, unreviewed) == position = Len(unreviewed)

\* file_after_round with save_questions() inside the loop
file_after_round_in_loop(position, unreviewed, dict, f) == save_questions(dict)

\* DATA_FILE after one round of the loop: save_questions() comes after the
\* loop, so only the last round is followed by a write
file_after_round(position, unreviewed, dict, f) ==
    IF loop_finished(position, unreviewed) THEN save_questions(dict) ELSE f

\* the process dies with the traceback of an uncaught exception
Crash ==
    /\ pc' = "crashed"
    /\ today' = <<>>
    /\ company' = NoCompany
    /\ sorted_questions' = <<>>
    /\ unreviewed_questions' = <<>>
    /\ i' = 0
    /\ UNCHANGED file

\* one round of the loop of review_questions: review_single_question for
\* unreviewed_questions[i], and save_questions() after the last round
review_single_question ==
    /\ pc = "session"
    /\ \E answer \in StartProblemInputs \cup {EOF} :
        LET question == unreviewed_questions[i]
            details  == questions.d[question]
            Continue ==
                /\ file' = file_after_round(i, unreviewed_questions, questions', file)
                /\ IF loop_finished(i, unreviewed_questions)
                   THEN /\ pc' = "menu"
                        /\ today' = <<>>
                        /\ company' = NoCompany
                        /\ sorted_questions' = <<>>
                        /\ unreviewed_questions' = <<>>
                        /\ i' = 0
                   ELSE /\ i' = i + 1
                        /\ UNCHANGED <<pc, today, company, sorted_questions,
                                       unreviewed_questions>>
        IN  /\ start_problem' = Append(start_problem, answer)
            /\ IF answer = EOF
               THEN /\ questions' = questions
                    /\ Crash
               ELSE IF declined(answer)
               THEN /\ questions' = questions
                    /\ Continue
               ELSE \E rating \in 1..5, time_taken \in TimeTakenInputs :
                    LET rated   == record_rating(details, today, rating, time_taken)
                        metrics == update_question_metrics(rated, rating, config, clock)
                    IN  IF metrics.raised
                        THEN /\ questions' = SetItem(questions, question, rated)
                             /\ Crash
                        ELSE \E explanation \in ExplanationInputs :
                             /\ questions' =
                                    SetItem(questions, question,
                                            [metrics.details EXCEPT
                                                !.feynman = explanation,
                                                !.last_reviewed = today])
                             /\ Continue
    /\ UNCHANGED <<config, clock, choices>>

\* ------------------------------------------------------------------------
\* toggle_company_prep_mode, the clock, a new run of the program
\* ------------------------------------------------------------------------
toggle_company_prep_mode ==
    /\ pc = "menu"
    /\ choices < MaxChoices
    /\ choices' = choices + 1
    /\ \E target \in CompanyInputs :
        config' = [config EXCEPT
                      !.COMPANY_PREP_MODE = ~config.COMPANY_PREP_MODE,
                      !.COMPANY_PREP_TARGET =
                          IF ~config.COMPANY_PREP_MODE THEN target ELSE ""]
    /\ UNCHANGED <<questions, file, clock, pc, session_vars>>

\* midnight (UTC-4) passes while the program runs
Tick ==
    /\ pc # "crashed"
    /\ clock < MaxDay
    /\ clock' = clock + 1
    /\ UNCHANGED <<questions, file, config, pc, session_vars, choices>>

\* the program is started again: the module-level load_questions()
Restart ==
    /\ pc = "crashed"
    /\ pc' = "menu"
    /\ questions' = load_questions(file)
    /\ start_problem' = <<>>
    /\ UNCHANGED <<file, config, clock, today, company, sorted_questions,
                   unreviewed_questions, i, choices>>

Init ==
    /\ questions = EmptyDict
    /\ file = EmptyDict
    /\ config = [COMPANY_PREP_MODE |-> FALSE,
                 COMPANY_PREP_TARGET |-> "",
                 COMPANY_PREP_RETENTION_FACTOR |-> (12 * SC) \div 10]
    /\ clock = 0
    /\ pc = "menu"
    /\ today = <<>>
    /\ company = NoCompany
    /\ sorted_questions = <<>>
    /\ unreviewed_questions = <<>>
    /\ i = 0
    /\ start_problem = <<>>
    /\ choices = 0

Next ==
    \/ add_question
    \/ review_questions
    \/ review_single_question
    \/ toggle_company_prep_mode
    \/ Tick
    \/ Restart

Spec == Init /\ [][Next]_vars

\* ------------------------------------------------------------------------
\* Vocabulary of the properties
\* ------------------------------------------------------------------------
Last(list) == list[Len(list)]

IsPrefix(s, t) == Len(s) <= Len(t) /\ SubSeq(t, 1, Len(s)) = s

\* the calendar date an ISO string denotes, as the number YYYYMMDD
DateKey(string) ==
    LET n(k) == string[k] - 48
    IN  (n(1) * 1000 + n(2) * 100 + n(3) * 10 + n(4)) * 10000
        + (n(6) * 10 + n(7)) * 100 + n(9) * 10 + n(10)

\* date.fromisoformat(string)
fromisoformat(string) ==
    LET key == DateKey(string)
    IN  <<key \div 10000, (key \div 100) % 100, key % 100>>

\* a round of the review loop that appended a rating to question q
RatingAppended(q) ==
    /\ pc = "session"
    /\ q \in Keys(questions) /\ q \in Keys(questions')
    /\ Len(questions'.d[q].ratings) = Len(questions.d[q].ratings) + 1

\* a round of the review loop that ran review_single_question to its end
ReviewRecorded(q) ==
    /\ RatingAppended(q)
    /\ pc' # "crashed"

\* C1: the ratings and solving_time lists of every item in DATA_FILE only
\* grow: each write leaves the earlier lists as prefixes of the new ones
C1_HistoriesOnlyGrow ==
    [][\A q \in Keys(file) :
          /\ q \in Keys(file')
          /\ IsPrefix(file.d[q].ratings, file'.d[q].ratings)
          /\ IsPrefix(file.d[q].solving_time, file'.d[q].solving_time)]_vars

\* C2: every stored item has next_review = last_reviewed + interval days
C2_NextReviewIsLastReviewedPlusInterval ==
    \A q \in Keys(file) :
        file.d[q].next_review =
            isoformat(AddDays(fromisoformat(file.d[q].last_reviewed),
                              file.d[q].interval))

\* C3: a round that appends a rating completes, and gives the item the
\* interval computed for the retention target: retention_factor times
\* COMPANY_PREP_RETENTION_FACTOR in prep mode for an item without the prep
\* target's tag, retention_factor otherwise
C3_ReviewCompletesWithPrepTarget ==
    [][\A q \in Keys(questions) :
          RatingAppended(q) =>
              LET before == questions.d[q]
                  after  == questions'.d[q]
                  rating == Last(after.ratings).rating
                  target ==
                      IF config.COMPANY_PREP_MODE
                         /\ ~InList(config.COMPANY_PREP_TARGET, before.company_tags)
                      THEN FMul(before.retention_factor,
                                config.COMPANY_PREP_RETENTION_FACTOR)
                      ELSE before.retention_factor
                  s == next_recall_stability(
                           before.difficulty, before.stability,
                           forgetting_curve(before.interval, before.stability),
                           rating)
              IN  /\ pc' # "crashed"
                  /\ after.last_reviewed = today
                  /\ after.interval = IF rating = 1 THEN 1 ELSE next_interval(s, target)
                  /\ after.difficulty = next_difficulty(before.difficulty, rating)]_vars

\* C4: no item ever carries part of a review: an item whose last rating is
\* dated d has last_reviewed = d and as many solving times as ratings
C4_ReviewIsAtomic ==
    \A q \in Keys(questions) :
        LET details == questions.d[q]
        IN  /\ Len(details.solving_time) = Len(details.ratings)
            /\ details.ratings # <<>> =>
                   details.last_reviewed = Last(details.ratings).date

NoTwoRatingsOnOneDate(dict) ==
    \A q \in Keys(dict) :
        LET ratings == dict.d[q].ratings
        IN  \A m, n \in 1..Len(ratings) : m # n => ratings[m].date # ratings[n].date

\* C5: a rating is appended only to an item whose last_reviewed is not the
\* session's today; no item, in memory or stored, has two ratings with one
\* date; a stored item reviewed today stays reviewed today while the day lasts
C5_OneReviewPerDay ==
    [][/\ \A q \in Keys(questions) :
              RatingAppended(q) =>
                  /\ questions.d[q].last_reviewed # today
                  /\ \A n \in 1..Len(questions.d[q].ratings) :
                         questions.d[q].ratings[n].date # today
       /\ NoTwoRatingsOnOneDate(questions')
       /\ NoTwoRatingsOnOneDate(file')
       /\ \A q \in Keys(file) :
              (file.d[q].last_reviewed = IsoDay(clock, 0) /\ clock' = clock)
                  => file'.d[q].last_reviewed = IsoDay(clock, 0)]_vars

\* a stored item has been reviewed today and the user can start another session
C5_Witness ==
    /\ pc = "menu"
    /\ choices < MaxChoices
    /\ \E q \in Keys(file) :
           /\ file.d[q].ratings # <<>>
           /\ Last(file.d[q].ratings).date = IsoDay(clock, 0)
           /\ file.d[q].last_reviewed = IsoDay(clock, 0)

Range(list) == {list[n] : n \in 1..Len(list)}

\* C6: in a session the listing holds, once each, exactly the loaded items
\* that carry the company tag (when one is given) and whose next_review is
\* today or earlier or whose last_reviewed is today; the items offered for
\* rating are exactly the listed ones not reviewed today
C6_ListingIsDueOrReviewedToday ==
    pc = "session" =>
        /\ Range(sorted_questions) =
               {q \in Keys(file) :
                    /\ company # NoCompany => company \in Range(file.d[q].company_tags)
                    /\ \/ DateKey(file.d[q].next_review) <= DateKey(today)
                       \/ file.d[q].last_reviewed = today}
        /\ Len(sorted_questions) = Cardinality(Range(sorted_questions))
        /\ \A q \in Range(sorted_questions) :
               DateKey(file.d[q].next_review) > DateKey(today)
                   => file.d[q].last_reviewed = today
        /\ Range(unreviewed_questions) =
               {q \in Range(sorted_questions) : file.d[q].last_reviewed # today}
        /\ Len(unreviewed_questions) = Cardinality(Range(unreviewed_questions))

\* a session under a company filter whose listing shows an item that is not
\* due yet, because it was reviewed today
C6_Witness ==
    /\ pc = "session"
    /\ company # NoCompany
    /\ \E q \in Range(sorted_questions) :
           /\ DateKey(file.d[q].next_review) > DateKey(today)
           /\ q \notin Range(unreviewed_questions)

\* C7: a recorded review with rating 1 leaves interval = 1 and
\* stability <= max(0.6 * s, 0.1), s being next_recall_stability of the
\* item's state before the review
C7_RatingOneResets ==
    [][\A q \in Keys(questions) :
          (ReviewRecorded(q) /\ Last(questions'.d[q].ratings).rating = 1) =>
              LET before == questions.d[q]
                  after  == questions'.d[q]
                  s == next_recall_stability(
                           before.difficulty, before.stability,
                           forgetting_curve(before.interval, before.stability), 1)
              IN  /\ after.interval = 1
                  /\ 10 * after.stability <= Max(6 * s, SC)]_vars

\* an item whose retention target makes next_interval the maximum was rated 1
C7_Witness ==
    \E q \in Keys(file) :
        /\ file.d[q].retention_factor = (1 * SC) \div 10
        /\ file.d[q].ratings # <<>>
        /\ Last(file.d[q].ratings).rating = 1
        /\ file.d[q].interval = 1

IntervalsInRange(dict) ==
    \A q \in Keys(dict) :
        /\ dict.d[q].interval \in 1..365
        /\ dict.d[q].ratings = <<>> => dict.d[q].interval = 1

\* C8: every item's interval is an integer from 1 to 365, and 1 at creation
C8_IntervalInRange == IntervalsInRange(questions) /\ IntervalsInRange(file)

\* a reviewed item whose interval was cut down to the maximum
C8_Witness ==
    \E q \in Keys(file) :
        /\ file.d[q].ratings # <<>>
        /\ Last(file.d[q].ratings).rating # 1
        /\ file.d[q].interval = 365

\* C9: a round whose answer declines the review leaves the item's record as
\* it was, and the save that ends the session stores every declined item as
\* it was stored before, still due and not reviewed today
C9_SkipChangesNothing ==
    [][(pc = "session" /\ Len(start_problem') = Len(start_problem) + 1) =>
          /\ InList("n", Last(start_problem')) =>
                 questions'.d[unreviewed_questions[i]]
                     = questions.d[unreviewed_questions[i]]
          /\ pc' = "menu" =>
                 \A n \in 1..Len(start_problem') :
                     InList("n", start_problem'[n]) =>
                         LET q == unreviewed_questions[n]
                         IN  /\ file'.d[q] = file.d[q]
                             /\ DateKey(file'.d[q].next_review) <= DateKey(today)
                             /\ file'.d[q].last_reviewed # today]_vars

\* a session that was saved after one item was declined and another reviewed
C9_Witness ==
    /\ pc = "menu"
    /\ \E m, n \in 1..Len(start_problem) :
           /\ InList("n", start_problem[m])
           /\ ~InList("n", start_problem[n])

\* C10: inside a session DATA_FILE is written by the round that ends the
\* loop and by no other; when the session crashes, the reviews it completed
\* are not in DATA_FILE and their items are due, unreviewed, on the day of
\* the crash
C10_SavedOnlyAfterTheLoop ==
    [][pc = "session" =>
          /\ file' # file => (pc' = "menu" /\ i = Len(unreviewed_questions))
          /\ pc' = "crashed" =>
                 /\ file' = file
                 /\ \A n \in 1..(i - 1) :
                        LET q == unreviewed_questions[n]
                        IN  questions.d[q].last_reviewed = today =>
                                /\ file'.d[q].last_reviewed # today
                                /\ file'.d[q].ratings # questions.d[q].ratings
                                /\ IsPrefix(file'.d[q].ratings, questions.d[q].ratings)
                                /\ DateKey(file'.d[q].next_review)
                                       <= DateKey(IsoDay(clock', 0))
                                /\ file'.d[q].last_reviewed # IsoDay(clock', 0)]_vars

\* a session crashed after it had completed the review of an earlier item
C10_Witness ==
    /\ pc = "crashed"
    /\ \E q \in Keys(questions) :
           /\ questions.d[q].last_reviewed # file.d[q].last_reviewed
           /\ Len(questions.d[q].ratings) = Len(file.d[q].ratings) + 1

====
